---- MODULE Spec2Model ----
(***************************************************************************)
(* MindSpace journaling application: the in-memory REST backend            *)
(* (backend/server.js), the text and history scoring functions             *)
(* (utils/voiceAnalysis.ts) and the dashboard's intervention prompt.       *)
(*                                                                         *)
(* Texts are sequences of one-character strings, so that tokenizing,       *)
(* lower-casing and the negation pattern are computed on characters.       *)
(* Fractional scores are carried in tenths (5.0 is 50): every increment    *)
(* of the scorers is a multiple of 0.1.                                    *)
(***************************************************************************)
EXTENDS Integers, Sequences, FiniteSets, TLC

VARIABLES
    text,        \* the input handed to the two analyzeSentiment copies
    backScore,   \* <<>> or <<result of the backend copy>>
    frontScore,  \* <<>> or <<result of the frontend copy>>
    moodHistory, \* the history handed to shouldIntervene
    verdict,     \* <<>> or <<result of shouldIntervene>>
    now,         \* the backend's Date.now(), in milliseconds
    users,       \* the users array of the backend
    registering, \* registrations past the e-mail check, awaiting bcrypt.hash
    journals,    \* the journals array of the backend
    resp,        \* the response to the latest backend request
    clock,       \* the browser's Date.now(), in milliseconds
    authToken,   \* whether localStorage holds an authToken
    showBot,     \* the dashboard's showBot state
    showTimers,  \* due times of the pending setTimeout(() => setShowBot(true))
    closeTimers, \* due times of the pending setTimeout(() => onClose())
    dismissedAt, \* localStorage aiInterventionDismissed: <<>> or <<time>>
    analyzer,    \* VoiceAnalyzer.analyzer: "null", "started" or "stopped"
    features,    \* what analyzer.get() yields: <<>> or <<snapshot>>
    isRecording, \* the recorder's isRecording state
    audioBlob,   \* whether the recorder holds a recorded blob
    voiceAnalysis, \* the recorder's voiceAnalysis state: <<>> or <<result>>
    calls,       \* the calls of getCurrentFeatures made so far, with results
    textScore,   \* the text score handed to the score aggregator, in tenths
    voiceScore,  \* the voice score handed to the score aggregator, in tenths
    combined,    \* <<>> or <<the aggregator's result>>
    stage,       \* the bot's conversation stage
    sent,        \* the number of messages the user has sent to the bot
    messageCount,   \* the length of the bot's messages list
    greetingPending, \* the delayed greeting has not run yet
    pendingReplies, \* the delayed replies not yet run, oldest first
    pendingLists    \* the delayed resource lists not yet shown

textVars == <<text, backScore, frontScore>>
interveneVars == <<moodHistory, verdict>>
backendVars == <<now, users, registering, journals, resp>>
botVars == <<clock, authToken, showBot, showTimers, closeTimers, dismissedAt>>
voiceVars == <<analyzer, features, isRecording, audioBlob, voiceAnalysis, calls>>
combineVars == <<textScore, voiceScore, combined>>
chatVars == <<stage, sent, messageCount, greetingPending, pendingReplies,
              pendingLists>>
vars == <<text, backScore, frontScore, moodHistory, verdict,
          now, users, registering, journals, resp,
          clock, authToken, showBot, showTimers, closeTimers, dismissedAt,
          analyzer, features, isRecording, audioBlob, voiceAnalysis, calls,
          textScore, voiceScore, combined,
          stage, sent, messageCount, greetingPending, pendingReplies,
          pendingLists>>

----------------------------------------------------------------------------
(* Bounds of the explored inputs. *)

\* free-form texts are built from at most this many pieces
MaxPieces == 4
\* repetitive texts repeat one phrase up to this many times
MaxRepeat == 12
\* histories handed to shouldIntervene directly have at most this many entries
MaxHistory == 8
\* registrations (stored or in flight) the backend is driven through
MaxUsers == 2
\* journals the backend is driven through when clients send arbitrary moods
MaxJournals == 2
\* journals one user submits from the journal page before opening the dashboard
MaxEntries == 8
\* the browser clock is followed for this many whole days ...
MaxDays == 1
\* ... and, within each day, for this many milliseconds
MaxMillis == 6000

----------------------------------------------------------------------------
(* Characters and JavaScript string helpers. *)

UpperChars == <<"A","B","C","D","E","F","G","H","I","J","K","L","M",
                "N","O","P","Q","R","S","T","U","V","W","X","Y","Z">>
LowerChars == <<"a","b","c","d","e","f","g","h","i","j","k","l","m",
                "n","o","p","q","r","s","t","u","v","w","x","y","z">>
DigitChars == {"0","1","2","3","4","5","6","7","8","9"}

\* the class \s of the regular expressions (the characters used here)
WhiteSpace == {" ", "\t", "\n"}

\* the class \w : [A-Za-z0-9_]
WordChars ==
    {UpperChars[i] : i \in 1..26} \cup {LowerChars[i] : i \in 1..26}
        \cup DigitChars \cup {"_"}

toLowerChar(c) ==
    IF \E i \in 1..26 : UpperChars[i] = c
    THEN LowerChars[CHOOSE i \in 1..26 : UpperChars[i] = c]
    ELSE c

\* String.prototype.toLowerCase
toLowerCase(t) == [i \in 1..Len(t) |-> toLowerChar(t[i])]

\* the first index >= i of t whose character is outside S (Len(t)+1 if none)
RECURSIVE SkipWhile(_, _, _)
SkipWhile(t, i, S) ==
    IF i > Len(t) \/ t[i] \notin S THEN i ELSE SkipWhile(t, i + 1, S)

\* String.prototype.split(/\s+/): the pieces between maximal whitespace runs;
\* a leading or trailing run yields an empty first or last piece
RECURSIVE splitFrom(_, _, _)
splitFrom(t, i, cur) ==
    IF i > Len(t) THEN <<cur>>
    ELSE IF t[i] \in WhiteSpace
         THEN <<cur>> \o splitFrom(t, SkipWhile(t, i, WhiteSpace), <<>>)
         ELSE splitFrom(t, i + 1, Append(cur, t[i]))

splitWhitespace(t) == splitFrom(t, 1, <<>>)

\* (text.match(/c/g) || []).length
countChar(t, c) == Cardinality({i \in 1..Len(t) : t[i] = c})

\* Math.round on a value given in tenths: floor(x + 0.5)
MathRound(tenths) == (tenths + 5) \div 10

Max(a, b) == IF a >= b THEN a ELSE b
Min(a, b) == IF a <= b THEN a ELSE b

----------------------------------------------------------------------------
(* The lexicons and the negation pattern of analyzeSentiment. *)

positiveWords ==
    { <<"h","a","p","p","y">>,
      <<"j","o","y">>,
      <<"l","o","v","e">>,
      <<"e","x","c","e","l","l","e","n","t">>,
      <<"g","o","o","d">>,
      <<"g","r","e","a","t">>,
      <<"w","o","n","d","e","r","f","u","l">>,
      <<"f","a","n","t","a","s","t","i","c">>,
      <<"a","m","a","z","i","n","g">>,
      <<"p","o","s","i","t","i","v","e">>,
      <<"e","x","c","i","t","e","d">>,
      <<"g","r","a","t","e","f","u","l">>,
      <<"b","l","e","s","s","e","d">>,
      <<"p","e","a","c","e","f","u","l">>,
      <<"c","a","l","m">>,
      <<"b","e","t","t","e","r">>,
      <<"i","m","p","r","o","v","e","d">>,
      <<"p","r","o","g","r","e","s","s">>,
      <<"s","u","c","c","e","s","s">> }

negativeWords ==
    { <<"s","a","d">>,
      <<"a","n","g","r","y">>,
      <<"h","a","t","e">>,
      <<"b","a","d">>,
      <<"t","e","r","r","i","b","l","e">>,
      <<"a","w","f","u","l">>,
      <<"h","o","r","r","i","b","l","e">>,
      <<"d","e","p","r","e","s","s","e","d">>,
      <<"a","n","x","i","o","u","s">>,
      <<"w","o","r","r","i","e","d">>,
      <<"s","c","a","r","e","d">>,
      <<"l","o","n","e","l","y">>,
      <<"h","o","p","e","l","e","s","s">>,
      <<"s","t","r","e","s","s","e","d">>,
      <<"o","v","e","r","w","h","e","l","m","e","d">>,
      <<"e","x","h","a","u","s","t","e","d">>,
      <<"t","i","r","e","d">>,
      <<"h","u","r","t">>,
      <<"p","a","i","n">> }

\* the alternatives of /(not|no|never|don't|...)\s+(\w+)/gi
negationMarkers ==
    { <<"n","o","t">>,
      <<"n","o">>,
      <<"n","e","v","e","r">>,
      <<"d","o","n","'","t">>,
      <<"d","o","e","s","n","'","t">>,
      <<"d","i","d","n","'","t">>,
      <<"w","o","n","'","t">>,
      <<"w","o","u","l","d","n","'","t">>,
      <<"c","a","n","'","t">>,
      <<"c","o","u","l","d","n","'","t">> }

\* the pattern matches at index i: a marker, then \s+, then \w+ ;
\* yields the index after the match, or 0
negationMatchEnd(t, i) ==
    LET ms == {m \in negationMarkers :
                 /\ i + Len(m) - 1 <= Len(t)
                 /\ SubSeq(t, i, i + Len(m) - 1) = m
                 /\ LET a == i + Len(m)
                        b == SkipWhile(t, a, WhiteSpace)
                    IN  b > a /\ b <= Len(t) /\ t[b] \in WordChars}
    IN  IF ms = {} THEN 0
        ELSE LET m == CHOOSE m \in ms : TRUE
             IN  SkipWhile(t, SkipWhile(t, i + Len(m), WhiteSpace), WordChars)

\* String.prototype.match with the g flag: successive non-overlapping
\* matches, each search resuming where the previous match ended
RECURSIVE countNegationsFrom(_, _)
countNegationsFrom(t, i) ==
    IF i > Len(t) THEN 0
    ELSE LET e == negationMatchEnd(t, i)
         IN  IF e = 0 THEN countNegationsFrom(t, i + 1)
             ELSE 1 + countNegationsFrom(t, e)

countNegations(t) == countNegationsFrom(toLowerCase(t), 1)

\* the two lexicons taken for one another
wordScoreInverted(t) ==
    LET words == splitWhitespace(toLowerCase(t))
        pos == Cardinality({i \in 1..Len(words) : words[i] \in positiveWords})
        neg == Cardinality({i \in 1..Len(words) : words[i] \in negativeWords})
    IN  5 * neg - 5 * pos

\* words.forEach: +0.5 per positive word, -0.5 per negative word (in tenths)
wordScore(t) ==
    LET words == splitWhitespace(toLowerCase(t))
        pos == Cardinality({i \in 1..Len(words) : words[i] \in positiveWords})
        neg == Cardinality({i \in 1..Len(words) : words[i] \in negativeWords})
    IN  5 * pos - 5 * neg

\* the accumulated score of the backend copy, in tenths
backendRawScore(t) ==
    50 + wordScore(t) - 3 * countNegations(t) + 2 * countChar(t, "!")

\* the frontend copy with an empty token taken for a negative word
frontendRawScoreEmptyTokens(t) ==
    LET words == splitWhitespace(toLowerCase(t))
    IN  50 + wordScore(t) - 3 * countNegations(t) + 2 * countChar(t, "!")
           - (IF countChar(t, "?") > 2 THEN 3 ELSE 0)
           - 5 * Cardinality({i \in 1..Len(words) : words[i] = <<>>})

\* the accumulated score of the frontend copy, in tenths
frontendRawScore(t) ==
    50 + wordScore(t) - 3 * countNegations(t) + 2 * countChar(t, "!")
       - (IF countChar(t, "?") > 2 THEN 3 ELSE 0)

\* the return statement without Math.max / Math.min
clampRoundUnclamped(tenths) == MathRound(tenths)

clampRound(tenths) == Max(1, Min(10, MathRound(tenths)))

\* backend/server.js analyzeSentiment
analyzeSentimentBackend(t) == clampRound(backendRawScore(t))

\* utils/voiceAnalysis.ts analyzeSentiment
analyzeSentiment(t) == clampRound(frontendRawScore(t))

----------------------------------------------------------------------------
(* JavaScript values that a mood can hold.  Numbers are carried in tenths. *)

Num(x) == [kind |-> "number", tenths |-> x]
NaN == [kind |-> "NaN", tenths |-> 0]
\* a string that is not numeric, such as "abc"
Str == [kind |-> "string", tenths |-> 0]
\* a string holding a decimal number, such as "42" or "7.5"
NumStr(x) == [kind |-> "numstring", tenths |-> x]
Undefined == [kind |-> "undefined", tenths |-> 0]

isNumber(v) == v.kind = "number"

\* ToBoolean: undefined, NaN and 0 are falsy; the strings above are non-empty
Truthy(v) ==
    CASE v.kind = "undefined" -> FALSE
      [] v.kind = "NaN" -> FALSE
      [] v.kind = "number" -> v.tenths # 0
      [] OTHER -> TRUE

\* a + b where a is a number, NaN or a non-numeric string and b likewise:
\* a string operand makes the result a (non-numeric) string
jsAdd(a, b) ==
    IF isNumber(a) /\ isNumber(b) THEN Num(a.tenths + b.tenths)
    ELSE IF a.kind = "string" \/ b.kind = "string" THEN Str
    ELSE NaN

\* a <= b : false as soon as one side is not a number
jsLeq(a, b) == isNumber(a) /\ isNumber(b) /\ a.tenths <= b.tenths

\* array.reduce((sum, entry) => sum + entry.mood, 0)
RECURSIVE sumMoods(_)
sumMoods(entries) ==
    IF entries = <<>> THEN Num(0)
    ELSE jsAdd(sumMoods(SubSeq(entries, 1, Len(entries) - 1)),
               entries[Len(entries)].mood)

\* (sum / n) < c and (sum / n) >= c for a threshold c in tenths; the quotient
\* of a non-number is NaN, and every comparison with NaN is false
\* (0 / 0 is NaN as well)
quotientLess(sum, n, c) == isNumber(sum) /\ n > 0 /\ sum.tenths < c * n
quotientAtLeast(sum, n, c) == isNumber(sum) /\ n > 0 /\ sum.tenths >= c * n

\* Array.prototype.slice(-k): the last k elements
sliceLast(s, k) == SubSeq(s, Max(1, Len(s) - k + 1), Len(s))
\* Array.prototype.slice(0, k): the first k elements
sliceFirst(s, k) == SubSeq(s, 1, Min(k, Len(s)))

----------------------------------------------------------------------------
(* utils/voiceAnalysis.ts shouldIntervene *)

\* if (moodHistory.length < 5) return false
MinHistory == 5
\* moodHistory.slice(-7)
InterveneWindow == 7
\* avgMood < 4
LowAverage == 40
\* isDecline && avgMood < 5.5
DeclineAverage == 55

recentWindow(history) == sliceLast(history, InterveneWindow)

\* the comparison without its + 1
isDeclineNoTolerance(recent) ==
    \A i \in 1..Len(recent) :
        i = 1 \/ jsLeq(recent[i].mood, recent[i - 1].mood)

isDecline(recent) ==
    \A i \in 1..Len(recent) :
        i = 1 \/ jsLeq(recent[i].mood, jsAdd(recent[i - 1].mood, Num(10)))

\* the length guard off by one
tooShortOffByOne(history) == Len(history) < MinHistory - 1

tooShort(history) == Len(history) < MinHistory

shouldIntervene(history) ==
    IF tooShort(history) THEN FALSE
    ELSE LET recent == recentWindow(history)
             sum == sumMoods(recent)
         IN  \/ quotientLess(sum, Len(recent), LowAverage)
             \/ (isDecline(recent)
                    /\ quotientLess(sum, Len(recent), DeclineAverage))

----------------------------------------------------------------------------
(* backend/server.js: the stores, the clock and the requests. *)

\* .slice(0, 30) of GET /mood/history
HistoryLimit == 30
\* .slice(0, 7) of GET /mood/trend-status
TrendWindow == 7
\* avgMood >= 7 and avgMood >= 4, in tenths
StableAverage == 70
FluctuatingAverage == 40
\* the default mood 5, in tenths
DefaultMood == 50

Emails == {"ana@mail", "bo@mail"}
RegisterPasswords == {"secret"}
LoginPasswords == {"secret", "guess"}

\* the Authorization header of a request: absent, a token SECRET did not
\* sign, or a token the backend signed for the payload {userId, email}
NoToken == [kind |-> "none", userId |-> 0, email |-> ""]
ForgedToken == [kind |-> "forged", userId |-> 0, email |-> ""]
signToken(user) == [kind |-> "signed", userId |-> user.id, email |-> user.email]

\* register and login sign a token for a stored user and for nobody else
SignedTokens == {signToken(users[i]) : i \in 1..Len(users)}
Credentials == {NoToken, ForgedToken} \cup SignedTokens

\* authenticateToken: the status it answers with, or 0 when it calls next()
authenticateToken(cred) ==
    CASE cred.kind = "none" -> 401
      [] cred.kind = "forged" -> 401
      [] OTHER -> 0

authMessage(cred) ==
    IF cred.kind = "none" THEN "No token provided" ELSE "Invalid token"

\* userId and email are req.user of the request that was answered
NoResponse ==
    [route |-> "", status |-> 0, message |-> "", mood |-> Undefined,
     history |-> <<>>, trend |-> "", avgMood |-> <<>>, userId |-> 0,
     email |-> ""]

Response(route, status, message) ==
    [NoResponse EXCEPT !.route = route, !.status = status, !.message = message]

\* the newest timestamp a stored record carries (0 when nothing is stored)
LatestStamp ==
    LET stamps == {users[i].id : i \in 1..Len(users)}
                    \cup {journals[i].date : i \in 1..Len(journals)} \cup {0}
    IN  CHOOSE m \in stamps : \A x \in stamps : x <= m

\* Time passes.  The handlers compare timestamps only for equality and order,
\* so the clock is kept at most one millisecond ahead of the newest record.
Tick ==
    /\ now <= LatestStamp
    /\ now' = now + 1
    /\ UNCHANGED <<users, registering, journals, resp>>

\* POST /auth/register up to the await: the e-mail check
RegisterBegin(email, password) ==
    /\ (Len(users) + Len(registering) < MaxUsers
           \/ \E i \in 1..Len(users) : users[i].email = email)
    /\ IF \E i \in 1..Len(users) : users[i].email = email
       THEN /\ resp' = Response("register", 400, "Email already exists")
            /\ UNCHANGED registering
       ELSE /\ registering' = Append(registering,
                                     [email |-> email, password |-> password])
            /\ UNCHANGED resp
    /\ UNCHANGED <<now, users, journals>>

\* POST /auth/register after the await: the user is created and pushed
RegisterFinish(k) ==
    LET req == registering[k]
        user == [id |-> now, email |-> req.email, password |-> req.password]
    IN  /\ users' = Append(users, user)
        /\ registering' = SubSeq(registering, 1, k - 1)
                            \o SubSeq(registering, k + 1, Len(registering))
        /\ resp' = [Response("register", 201, "") EXCEPT !.userId = user.id]
        /\ UNCHANGED <<now, journals>>

\* users.find(u => u.email === email): the first match, or <<>>
findUser(email) ==
    LET hits == {i \in 1..Len(users) : users[i].email = email}
    IN  IF hits = {} THEN <<>>
        ELSE <<users[CHOOSE i \in hits : \A j \in hits : i <= j]>>

\* POST /auth/login
Login(email, password) ==
    /\ LET found == findUser(email)
       IN  resp' = IF found = <<>> \/ found[1].password # password
                   THEN Response("login", 401, "Invalid credentials")
                   ELSE [Response("login", 200, "") EXCEPT !.userId = found[1].id]
    /\ UNCHANGED <<now, users, registering, journals>>

\* mood || 5
moodOrDefault(mood) == IF Truthy(mood) THEN mood ELSE Num(DefaultMood)

\* the mood POST /journal/text stores for a body {content, mood}; an empty
\* text stands for an absent or empty content
textMood(content, mood) ==
    moodOrDefault(IF ~Truthy(mood) /\ content # <<>>
                  THEN Num(10 * analyzeSentimentBackend(content))
                  ELSE mood)

\* parseInt of a form field: the integer part of a numeric string, else NaN
parseInt(field) ==
    IF field.kind = "numstring"
    THEN Num(10 * (IF field.tenths >= 0 THEN field.tenths \div 10
                   ELSE -((-field.tenths) \div 10)))
    ELSE NaN

\* req.body.mood ? parseInt(req.body.mood) : 5
voiceMood(field) == IF Truthy(field) THEN parseInt(field) ELSE Num(DefaultMood)

\* the journal object of a submission; author records req.user.email, the
\* account the submission came from (the code logs it and does not store it)
newJournal(cred, mood, source) ==
    [id |-> now, userId |-> cred.userId, mood |-> mood, source |-> source,
     date |-> now, author |-> cred.email]

\* the new entry put in front of the others
unshiftJournal(journal) == <<journal>> \o journals

\* journals.push(journal)
pushJournal(journal) == Append(journals, journal)

\* POST /journal/text
PostJournalText(cred, content, mood) ==
    IF authenticateToken(cred) # 0
    THEN /\ resp' = Response("journal/text", authenticateToken(cred), authMessage(cred))
         /\ UNCHANGED <<now, users, registering, journals>>
    ELSE LET journal == newJournal(cred, textMood(content, mood), "text")
         IN  /\ journals' = pushJournal(journal)
             /\ resp' = [Response("journal/text", 201, "")
                            EXCEPT !.mood = journal.mood, !.userId = cred.userId]
             /\ UNCHANGED <<now, users, registering>>

\* the journal stored before the file is looked at
PostJournalVoiceStoreFirst(cred, hasFile, field) ==
    IF authenticateToken(cred) # 0
    THEN /\ resp' = Response("journal/voice", authenticateToken(cred), authMessage(cred))
         /\ UNCHANGED <<now, users, registering, journals>>
    ELSE LET journal == newJournal(cred, voiceMood(field), "voice")
         IN  /\ journals' = pushJournal(journal)
             /\ resp' = IF ~hasFile
                        THEN Response("journal/voice", 400, "No audio file provided")
                        ELSE [Response("journal/voice", 201, "")
                                 EXCEPT !.mood = journal.mood, !.userId = cred.userId]
             /\ UNCHANGED <<now, users, registering>>

\* POST /journal/voice
PostJournalVoice(cred, hasFile, field) ==
    IF authenticateToken(cred) # 0
    THEN /\ resp' = Response("journal/voice", authenticateToken(cred), authMessage(cred))
         /\ UNCHANGED <<now, users, registering, journals>>
    ELSE IF ~hasFile
    THEN /\ resp' = Response("journal/voice", 400, "No audio file provided")
         /\ UNCHANGED <<now, users, registering, journals>>
    ELSE LET journal == newJournal(cred, voiceMood(field), "voice")
         IN  /\ journals' = pushJournal(journal)
             /\ resp' = [Response("journal/voice", 201, "")
                            EXCEPT !.mood = journal.mood, !.userId = cred.userId]
             /\ UNCHANGED <<now, users, registering>>

\* journals.filter(j => j.userId === req.user.userId)
journalsOf(userId) == SelectSeq(journals, LAMBDA j : j.userId = userId)

\* Array.prototype.sort((a, b) => new Date(b.date) - new Date(a.date)):
\* descending by date, entries of equal date keeping their order
insertByDateDesc(sorted, e) ==
    LET k == Cardinality({i \in 1..Len(sorted) : sorted[i].date >= e.date})
    IN  SubSeq(sorted, 1, k) \o <<e>> \o SubSeq(sorted, k + 1, Len(sorted))

RECURSIVE sortByDateDesc(_)
sortByDateDesc(s) ==
    IF s = <<>> THEN <<>>
    ELSE insertByDateDesc(sortByDateDesc(SubSeq(s, 1, Len(s) - 1)), s[Len(s)])

\* the history array of GET /mood/history
moodHistoryOf(userId) ==
    LET userJournals == sliceFirst(sortByDateDesc(journalsOf(userId)), HistoryLimit)
    IN  [i \in 1..Len(userJournals) |->
            [id |-> userJournals[i].id, date |-> userJournals[i].date,
             mood |-> userJournals[i].mood, source |-> userJournals[i].source]]

\* GET /mood/history
GetMoodHistory(cred) ==
    /\ resp' = IF authenticateToken(cred) # 0
               THEN Response("mood/history", authenticateToken(cred), authMessage(cred))
               ELSE [Response("mood/history", 200, "")
                        EXCEPT !.history = moodHistoryOf(cred.userId),
                               !.userId = cred.userId,
                               !.email = cred.email]
    /\ UNCHANGED <<now, users, registering, journals>>

\* the entries GET /mood/trend-status averages
trendWindowOf(userId) == sliceFirst(sortByDateDesc(journalsOf(userId)), TrendWindow)

\* the status chosen from the average of a non-empty window
trendOf(window) ==
    LET sum == sumMoods(window)
    IN  IF quotientAtLeast(sum, Len(window), StableAverage) THEN "stable"
        ELSE IF quotientAtLeast(sum, Len(window), FluctuatingAverage)
             THEN "fluctuating"
             ELSE "negative"

\* the average rounded to a whole number
roundedAverageWhole(window) ==
    LET sum == sumMoods(window)
    IN  IF isNumber(sum) /\ Len(window) > 0
        THEN Num(10 * ((2 * sum.tenths + 10 * Len(window)) \div (20 * Len(window))))
        ELSE NaN

\* parseFloat(avgMood.toFixed(1)) in tenths: the nearest tenth, a tie going up
roundedAverage(window) ==
    LET sum == sumMoods(window)
    IN  IF isNumber(sum) /\ Len(window) > 0
        THEN Num((2 * sum.tenths + Len(window)) \div (2 * Len(window)))
        ELSE NaN

\* the early return dropped
emptyWindowIgnored(window) == FALSE

\* if (userJournals.length === 0)
emptyWindow(window) == Len(window) = 0

trendStatusOf(userId) ==
    LET window == trendWindowOf(userId)
    IN  IF emptyWindow(window)
        THEN [Response("mood/trend-status", 200,
                       "Start journaling to track your mood trends")
                 EXCEPT !.trend = "stable", !.userId = userId]
        ELSE [Response("mood/trend-status", 200,
                       CASE trendOf(window) = "stable" ->
                                "Your mood has been stable and positive"
                         [] trendOf(window) = "fluctuating" ->
                                "Your mood has been fluctuating recently"
                         [] OTHER -> "Your mood has been low recently")
                 EXCEPT !.trend = trendOf(window),
                        !.avgMood = <<roundedAverage(window)>>,
                        !.userId = userId]

\* GET /mood/trend-status
GetTrendStatus(cred) ==
    /\ resp' = IF authenticateToken(cred) # 0
               THEN Response("mood/trend-status", authenticateToken(cred),
                             authMessage(cred))
               ELSE [trendStatusOf(cred.userId) EXCEPT !.email = cred.email]
    /\ UNCHANGED <<now, users, registering, journals>>

----------------------------------------------------------------------------
(* Inputs of the text scorers. *)

\* the pieces free-form texts are built from: a positive and a negative
\* lexicon word, a negation marker, a word ending in the letters of a marker,
\* a capitalised lexicon word, a neutral word, punctuation and a blank
Pieces ==
    { <<"h","a","p","p","y">>, <<"s","a","d">>, <<"n","o","t">>, <<"p","i","a","n","o">>,
      <<"G","r","e","a","t">>, <<"m","a","n">>, <<"!">>, <<"?">>, <<" ">> }

RECURSIVE TextsUpTo(_)
TextsUpTo(n) ==
    IF n = 0 THEN {<<>>}
    ELSE LET s == TextsUpTo(n - 1)
         IN  s \cup {x \o p : x \in s, p \in Pieces}

\* phrases repeated to drive one count far enough for the clamp to act
Phrases ==
    { <<"h","a","p","p","y"," ">>, <<"s","a","d"," ">>, <<"n","o","t"," ","s","o"," ">>, <<"!">>, <<"?">> }

Tails == { <<>>, <<"h","a","p","p","y">>, <<"s","a","d">>, <<"?", "?", "?">> }

RECURSIVE Repeat(_, _)
Repeat(p, k) == IF k = 0 THEN <<>> ELSE p \o Repeat(p, k - 1)

RepetitiveTexts ==
    {Repeat(p, k) \o tl : p \in Phrases, k \in 1..MaxRepeat, tl \in Tails}

\* the worked examples of the documentation
SampleTexts ==
    { <<"I"," ","a","m"," ","h","a","p","p","y"," ","a","n","d"," ","e","x","c","i","t","e","d","!">>,
      <<"I"," ","a","m"," ","n","o","t"," ","h","a","p","p","y">>,
      <<"n","o","t"," ","n","e","v","e","r"," ","h","a","p","p","y">>,
      <<"p","i","a","n","o"," ","m","a","n">> }

\* texts of whitespace only, other than blanks
BlankTexts == { <<"\t">>, <<"\n", "\n">>, <<" ", "\n", "\t">> }

TextInputs == TextsUpTo(MaxPieces) \cup RepetitiveTexts \cup SampleTexts \cup BlankTexts

IdleIntervene == moodHistory = <<>> /\ verdict = <<>>

BackendOff ==
    /\ now = 0
    /\ users = <<>>
    /\ registering = <<>>
    /\ journals = <<>>
    /\ resp = NoResponse

\* the score aggregator is not called
CombineOff ==
    /\ textScore = 0
    /\ voiceScore = 0
    /\ combined = <<>>

\* no bot is mounted
ChatOff ==
    /\ stage = "greeting"
    /\ sent = 0
    /\ messageCount = 0
    /\ greetingPending = FALSE
    /\ pendingReplies = <<>>
    /\ pendingLists = 0

\* no recorder is open
VoiceOff ==
    /\ analyzer = "null"
    /\ features = <<>>
    /\ isRecording = FALSE
    /\ audioBlob = FALSE
    /\ voiceAnalysis = <<>>
    /\ calls = <<>>

\* no dashboard is open
BotOff ==
    /\ clock = 0
    /\ authToken = FALSE
    /\ showBot = FALSE
    /\ showTimers = {}
    /\ closeTimers = {}
    /\ dismissedAt = <<>>

TextInit ==
    /\ text \in TextInputs
    /\ backScore = <<>>
    /\ frontScore = <<>>
    /\ IdleIntervene
    /\ BackendOff
    /\ BotOff
    /\ VoiceOff
    /\ CombineOff
    /\ ChatOff

\* POST /journal/text without a mood: the backend scores the content
AnalyzeBackend ==
    /\ backScore = <<>>
    /\ backScore' = <<analyzeSentimentBackend(text)>>
    /\ UNCHANGED <<text, frontScore>>
    /\ UNCHANGED <<interveneVars, backendVars, botVars, voiceVars, combineVars, chatVars>>

\* the journal page scores the text before submitting it
AnalyzeFrontend ==
    /\ frontScore = <<>>
    /\ frontScore' = <<analyzeSentiment(text)>>
    /\ UNCHANGED <<text, backScore>>
    /\ UNCHANGED <<interveneVars, backendVars, botVars, voiceVars, combineVars, chatVars>>

TextNext == AnalyzeBackend \/ AnalyzeFrontend

SpecText == TextInit /\ [][TextNext]_vars

----------------------------------------------------------------------------
(* Inputs of shouldIntervene called on its own. *)

\* mood levels around the thresholds: steps of 1 and of 2, means of 4 and 5.5
MoodLevels == {3, 4, 6}

RECURSIVE HistoriesUpTo(_)
HistoriesUpTo(n) ==
    IF n = 0 THEN {<<>>}
    ELSE LET s == HistoriesUpTo(n - 1)
         IN  s \cup {Append(h, [mood |-> Num(10 * m)]) : h \in s, m \in MoodLevels}

IdleText == text = <<>> /\ backScore = <<>> /\ frontScore = <<>>

InterveneInit ==
    /\ moodHistory \in HistoriesUpTo(MaxHistory)
    /\ verdict = <<>>
    /\ IdleText
    /\ BackendOff
    /\ BotOff
    /\ VoiceOff
    /\ CombineOff
    /\ ChatOff

Evaluate ==
    /\ verdict = <<>>
    /\ verdict' = <<shouldIntervene(moodHistory)>>
    /\ UNCHANGED moodHistory
    /\ UNCHANGED <<textVars, backendVars, botVars, voiceVars, combineVars, chatVars>>

InterveneNext == Evaluate

SpecIntervene == InterveneInit /\ [][InterveneNext]_vars

----------------------------------------------------------------------------
(* The backend driven by clients that may send any mood. *)

\* req.body.mood of a JSON body: absent, 0, 7.5, 42, "abc"
TextMoodInputs == {Undefined, Num(0), Num(75), Num(420), Str}
\* req.body.content: absent, or a text that scores 6
ContentInputs == {<<>>, <<"h","a","p","p","y"," ","h","a","p","p","y">>}
\* the mood field of a multipart form: absent, "0", "7.5", "42", "abc"
VoiceFieldInputs == {Undefined, NumStr(0), NumStr(75), NumStr(420), Str}

BackendIdle ==
    /\ now = 1
    /\ users = <<>>
    /\ registering = <<>>
    /\ journals = <<>>
    /\ resp = NoResponse

Init == BackendIdle /\ IdleText /\ IdleIntervene /\ BotOff /\ VoiceOff
            /\ CombineOff /\ ChatOff

\* the scorers called on their own and the dashboard stay idle
ScorersIdle == UNCHANGED <<textVars, interveneVars, botVars, voiceVars, combineVars, chatVars>>

ClockTick == Tick /\ ScorersIdle

Register ==
    /\ \E e \in Emails, p \in RegisterPasswords : RegisterBegin(e, p)
    /\ ScorersIdle

RegisterDone ==
    /\ \E k \in 1..Len(registering) : RegisterFinish(k)
    /\ ScorersIdle

LoginRequest ==
    /\ \E e \in Emails, p \in LoginPasswords : Login(e, p)
    /\ ScorersIdle

TextRequest ==
    /\ Len(journals) < MaxJournals
    /\ \E c \in Credentials, content \in ContentInputs, m \in TextMoodInputs :
           PostJournalText(c, content, m)
    /\ ScorersIdle

VoiceRequest ==
    /\ Len(journals) < MaxJournals
    /\ \E c \in Credentials, f \in BOOLEAN, m \in VoiceFieldInputs :
           PostJournalVoice(c, f, m)
    /\ ScorersIdle

HistoryRequest ==
    /\ \E c \in Credentials : GetMoodHistory(c)
    /\ ScorersIdle

TrendRequest ==
    /\ \E c \in Credentials : GetTrendStatus(c)
    /\ ScorersIdle

Next ==
    \/ ClockTick
    \/ Register
    \/ RegisterDone
    \/ LoginRequest
    \/ TextRequest
    \/ VoiceRequest
    \/ HistoryRequest
    \/ TrendRequest

Spec == Init /\ [][Next]_vars

----------------------------------------------------------------------------
(* The dashboard flow: one user journals from the journal page, which sends
   the mood its own analyzeSentiment computed; useMood fetches the history
   and the dashboard's effect hands it to shouldIntervene. *)

\* texts typed into the journal page; they score 3 and 5
JournalTexts ==
    { <<"s","a","d"," ","s","a","d"," ","s","a","d"," ","s","a","d">>, <<"a"," ","w","a","l","k">> }

DashboardInit == BackendIdle /\ IdleText /\ IdleIntervene /\ BotOff /\ VoiceOff
            /\ CombineOff /\ ChatOff

\* register.tsx: the user creates the account
SignUp ==
    /\ users = <<>>
    /\ registering = <<>>
    /\ RegisterBegin("ana@mail", "secret")
    /\ ScorersIdle

\* journal.tsx handleTextSubmit: submitTextJournal({content, mood}) with
\* mood = analyzeSentiment(textContent); entries are written at distinct
\* milliseconds
JournalSubmit ==
    /\ Len(journals) < MaxEntries
    /\ now > LatestStamp
    /\ \E c \in SignedTokens, t \in JournalTexts :
           PostJournalText(c, t, Num(10 * analyzeSentiment(t)))
    /\ ScorersIdle

\* useMood fetchMoodHistory: api.get('/mood/history') with the stored token
FetchMoodHistory ==
    /\ \E c \in SignedTokens : GetMoodHistory(c)
    /\ ScorersIdle

\* useMood fetchTrendStatus: api.get('/mood/trend-status')
FetchTrendStatus ==
    /\ \E c \in SignedTokens : GetTrendStatus(c)
    /\ ScorersIdle

\* setHistory(response.data.history || []) and the dashboard effect that the
\* new history triggers: history.length > 0 && shouldIntervene(history)
SetHistory ==
    /\ resp.route = "mood/history"
    /\ resp.status = 200
    /\ moodHistory' = resp.history
    /\ verdict' = <<Len(resp.history) > 0 /\ shouldIntervene(resp.history)>>
    /\ UNCHANGED <<textVars, backendVars, botVars, voiceVars, combineVars, chatVars>>

DashboardNext ==
    \/ ClockTick
    \/ SignUp
    \/ RegisterDone
    \/ JournalSubmit
    \/ FetchMoodHistory
    \/ FetchTrendStatus
    \/ SetHistory

SpecDashboard == DashboardInit /\ [][DashboardNext]_vars

----------------------------------------------------------------------------
(* The dashboard's intervention prompt: the effect of dashboard.tsx, its
   2-second show timers, the bot's close button and 'Maybe Later'. *)

\* setTimeout(() => setShowBot(true), 2000)
ShowDelay == 2000
\* setTimeout(() => onClose(), 2000)
CloseDelay == 2000
\* 24 * 60 * 60 * 1000
DayMs == 86400000

\* what useMood's fetch can bring: no entries, five low moods, five fair moods
FetchedHistories ==
    { <<>>,
      [i \in 1..5 |-> [mood |-> Num(30)]],
      [i \in 1..5 |-> [mood |-> Num(60)]] }

\* time passes in steps of one second or one day
ClockSteps == {1000, DayMs}

BotInit ==
    /\ clock = 0
    /\ authToken \in BOOLEAN
    /\ showBot = FALSE
    /\ showTimers = {}
    /\ closeTimers = {}
    /\ dismissedAt = <<>>
    /\ IdleText
    /\ IdleIntervene
    /\ BackendOff
    /\ VoiceOff
    /\ CombineOff
    /\ ChatOff

\* the body of the dashboard's useEffect for the history h: the show timers
\* pending after it ran
effectTimers(h) ==
    IF ~authToken THEN showTimers
    ELSE IF Len(h) > 0 /\ shouldIntervene(h)
              /\ (dismissedAt = <<>> \/ dismissedAt[1] < clock - DayMs)
         THEN showTimers \cup {clock + ShowDelay}
         ELSE showTimers

BotFrame == UNCHANGED <<textVars, backendVars, verdict, voiceVars,
                        combineVars, chatVars>>

\* useMood's fetch resolves: setHistory, and the effect runs for the new history
HistoryArrives ==
    /\ moodHistory = <<>>
    /\ \E h \in FetchedHistories \ {<<>>} :
           /\ moodHistory' = h
           /\ showTimers' = effectTimers(h)
    /\ UNCHANGED <<clock, authToken, showBot, closeTimers, dismissedAt>>
    /\ BotFrame

\* the router dependency changes: the effect runs again for the same history
EffectRerun ==
    /\ showTimers' = effectTimers(moodHistory)
    /\ UNCHANGED <<clock, authToken, showBot, closeTimers, dismissedAt, moodHistory>>
    /\ BotFrame

\* a show timer comes due: setShowBot(true)
ShowTimerFires ==
    /\ \E t \in showTimers :
           /\ t <= clock
           /\ showTimers' = showTimers \ {t}
    /\ showBot' = TRUE
    /\ UNCHANGED <<clock, authToken, closeTimers, dismissedAt, moodHistory>>
    /\ BotFrame

\* the close button of the bot: onClose
CloseClicked ==
    /\ showBot
    /\ showBot' = FALSE
    /\ dismissedAt' = <<clock>>
    /\ UNCHANGED <<clock, authToken, showTimers, closeTimers, moodHistory>>
    /\ BotFrame

\* handleQuickAction('later'): onClose is called two seconds later
MaybeLater ==
    /\ showBot
    /\ closeTimers' = closeTimers \cup {clock + CloseDelay}
    /\ UNCHANGED <<clock, authToken, showBot, showTimers, dismissedAt, moodHistory>>
    /\ BotFrame

\* the delayed close comes due: onClose
CloseTimerFires ==
    /\ \E t \in closeTimers :
           /\ t <= clock
           /\ closeTimers' = closeTimers \ {t}
    /\ showBot' = FALSE
    /\ dismissedAt' = <<clock>>
    /\ UNCHANGED <<clock, authToken, showTimers, moodHistory>>
    /\ BotFrame

\* time passes, no further than the next timer that is due
TimePasses ==
    /\ \E d \in ClockSteps :
           /\ (clock + d) \div DayMs <= MaxDays
           /\ (clock + d) % DayMs <= MaxMillis
           /\ \A t \in showTimers \cup closeTimers : clock + d <= t
           /\ clock' = clock + d
    /\ UNCHANGED <<authToken, showBot, showTimers, closeTimers, dismissedAt, moodHistory>>
    /\ BotFrame

\* the page is loaded again: React state and timers are gone, localStorage stays
PageReload ==
    /\ moodHistory' = <<>>
    /\ showBot' = FALSE
    /\ showTimers' = {}
    /\ closeTimers' = {}
    /\ UNCHANGED <<clock, authToken, dismissedAt>>
    /\ BotFrame

BotNext ==
    \/ HistoryArrives
    \/ EffectRerun
    \/ ShowTimerFires
    \/ CloseClicked
    \/ MaybeLater
    \/ CloseTimerFires
    \/ TimePasses
    \/ PageReload

SpecBot == BotInit /\ [][BotNext]_vars

----------------------------------------------------------------------------
(* utils/voiceAnalysis.ts VoiceAnalyzer.getCurrentFeatures, the recorder that
   calls it when a recording stops, and the journal page that submits the
   recording.  A feature of a snapshot is <<>> when the property is missing
   and <<v>> otherwise; energy and rms are carried in thousandths, zcr and
   spectralCentroid in units. *)

\* getCurrentFeatures is called at most this many times
MaxCalls == 2

\* features.energy: missing, 0, 0.05, 0.075, 2
EnergyInputs == {<<>>, <<0>>, <<50>>, <<75>>, <<2000>>}
\* features.zcr: missing, 0, 250, 1200
ZcrInputs == {<<>>, <<0>>, <<250>>, <<1200>>}
\* features.rms: missing, 0.199, 0.2, 0.5, 0.501
RmsInputs == {<<>>, <<199>>, <<200>>, <<500>>, <<501>>}
\* features.spectralCentroid: missing, 1200
CentroidInputs == {<<>>, <<1200>>}

\* what this.analyzer.get() can yield: nothing, or a features object
FeatureInputs ==
    {<<>>} \cup
    { <<[energy |-> e, zcr |-> z, rms |-> r, spectralCentroid |-> c]>> :
          e \in EnergyInputs, z \in ZcrInputs, r \in RmsInputs,
          c \in CentroidInputs }

\* Math.min(features.energy * 100, 10), in hundredths
energyScore(f) == Min(10 * f.energy[1], 1000)

\* Math.max(0, 10 - (features.zcr / 100)), in hundredths
clarityScore(f) == Max(0, 1000 - f.zcr[1])

\* Math.round(energyScore * 0.6 + clarityScore * 0.4); NaN when energy or
\* zcr is undefined
roundedScore(f) == (6 * energyScore(f) + 4 * clarityScore(f) + 500) \div 1000

\* the score passed on as it is
scoreUnclamped(score) == score

\* Math.max(1, Math.min(10, moodScore))
scoreClamped(score) == Max(1, Min(10, score))

\* the moodScore field, as a JS value in tenths
moodScoreOf(f) ==
    IF f.energy = <<>> \/ f.zcr = <<>> THEN NaN
    ELSE Num(10 * scoreClamped(roundedScore(f)))

\* the upper threshold taken inclusive
clarityInclusive(f) ==
    IF f.rms # <<>> /\ f.rms[1] >= 500 THEN "clear"
    ELSE IF f.rms # <<>> /\ f.rms[1] < 200 THEN "unclear"
    ELSE "moderate"

\* the clarity label: comparisons with undefined are false
clarityOf(f) ==
    IF f.rms # <<>> /\ f.rms[1] > 500 THEN "clear"
    ELSE IF f.rms # <<>> /\ f.rms[1] < 200 THEN "unclear"
    ELSE "moderate"

\* features.x || 0
orZero(v) == IF v = <<>> THEN 0 ELSE v[1]

\* a missing snapshot scored all the same
noFeaturesIgnored(got) == FALSE

\* if (!features) return null
noFeatures(got) == got = <<>>

\* an analyzer that yields nothing, standing in for the missing snapshot
EmptySnapshot ==
    [energy |-> <<>>, zcr |-> <<>>, rms |-> <<>>, spectralCentroid |-> <<>>]

\* getCurrentFeatures(): <<>> for null, else the result object; got is what
\* analyzer.get() yields and t is the time of new Date()
getCurrentFeatures(an, got, t) ==
    IF an = "null" THEN <<>>
    ELSE IF noFeatures(got) THEN <<>>
    ELSE LET f == IF got = <<>> THEN EmptySnapshot ELSE got[1]
         IN  << [pitch |-> orZero(f.spectralCentroid),
                 energy |-> orZero(f.energy),
                 spectralCentroid |-> orZero(f.spectralCentroid),
                 rms |-> orZero(f.rms),
                 zcr |-> orZero(f.zcr),
                 moodScore |-> moodScoreOf(f),
                 clarity |-> clarityOf(f),
                 timestamp |-> t] >>

\* one call of getCurrentFeatures, as the log keeps it
callRecord(result) ==
    [analyzer |-> analyzer, features |-> features, result |-> result]

\* analysis?.moodScore || 5
submittedMood(analysis) ==
    IF analysis # <<>> /\ Truthy(analysis[1].moodScore)
    THEN analysis[1].moodScore
    ELSE Num(DefaultMood)

\* if (mood) formData.append('mood', mood.toString())
moodField(mood) == IF Truthy(mood) THEN NumStr(mood.tenths) ELSE Undefined

VoiceInit ==
    /\ features \in FeatureInputs
    /\ analyzer = "null"
    /\ isRecording = FALSE
    /\ audioBlob = FALSE
    /\ voiceAnalysis = <<>>
    /\ calls = <<>>
    /\ clock = 0
    /\ authToken = FALSE
    /\ showBot = FALSE
    /\ showTimers = {}
    /\ closeTimers = {}
    /\ dismissedAt = <<>>
    /\ BackendIdle
    /\ IdleText
    /\ IdleIntervene
    /\ CombineOff
    /\ ChatOff

VoiceFrame == UNCHANGED <<textVars, interveneVars, authToken, showBot,
                          showTimers, closeTimers, dismissedAt,
                          combineVars, chatVars>>

\* the browser's clock advances; timestamps are only compared for equality
VoiceClockTick ==
    /\ clock <= Len(calls)
    /\ clock' = clock + 1
    /\ UNCHANGED <<backendVars, voiceVars>>
    /\ VoiceFrame

\* getCurrentFeatures called on the analyzer as it is
ProbeFeatures ==
    /\ Len(calls) < MaxCalls
    /\ calls' = Append(calls, callRecord(getCurrentFeatures(analyzer, features, clock)))
    /\ UNCHANGED <<analyzer, features, isRecording, audioBlob, voiceAnalysis>>
    /\ UNCHANGED <<backendVars, clock>>
    /\ VoiceFrame

\* startRecording: a new VoiceAnalyzer is created and started
StartRecording ==
    /\ ~isRecording
    /\ ~audioBlob
    /\ analyzer' = "started"
    /\ isRecording' = TRUE
    /\ UNCHANGED <<features, audioBlob, voiceAnalysis, calls>>
    /\ UNCHANGED <<backendVars, clock>>
    /\ VoiceFrame

\* stopRecording and mediaRecorder.onstop: the blob is kept, the final
\* analysis is taken and the analyzer stopped
StopRecording ==
    /\ isRecording
    /\ Len(calls) < MaxCalls
    /\ LET analysis == getCurrentFeatures(analyzer, features, clock)
       IN  /\ voiceAnalysis' = analysis
           /\ calls' = Append(calls, callRecord(analysis))
    /\ audioBlob' = TRUE
    /\ isRecording' = FALSE
    /\ analyzer' = "stopped"
    /\ UNCHANGED features
    /\ UNCHANGED <<backendVars, clock>>
    /\ VoiceFrame

\* handleReset: the recording is discarded
HandleReset ==
    /\ audioBlob
    /\ audioBlob' = FALSE
    /\ UNCHANGED <<analyzer, features, isRecording, voiceAnalysis, calls>>
    /\ UNCHANGED <<backendVars, clock>>
    /\ VoiceFrame

\* handleSubmit, handleVoiceSubmit and submitVoiceJournal: the recording is
\* posted to /journal/voice with the mood field
HandleSubmit ==
    /\ audioBlob
    /\ Len(journals) < MaxJournals
    /\ \E c \in SignedTokens :
           PostJournalVoice(c, TRUE, moodField(submittedMood(voiceAnalysis)))
    /\ UNCHANGED <<voiceVars, clock>>
    /\ VoiceFrame

VoiceNext ==
    \/ SignUp
    \/ RegisterDone
    \/ VoiceClockTick
    \/ ProbeFeatures
    \/ StartRecording
    \/ StopRecording
    \/ HandleReset
    \/ HandleSubmit

SpecVoice == VoiceInit /\ [][VoiceNext]_vars

----------------------------------------------------------------------------
(* Properties of the text scorers. *)

\* C2: every result of analyzeSentiment, of the backend copy and of the
\* frontend copy, is an integer from 1 to 10, whatever the counts of lexicon
\* words, negation matches, exclamation marks and question marks.
C2_ScoreInRange ==
    /\ backScore # <<>> => backScore[1] \in 1..10
    /\ frontScore # <<>> => frontScore[1] \in 1..10

\* both copies have scored a text whose accumulated value lies above 10.5
C2_ClampedAtTen ==
    /\ backScore = <<10>>
    /\ frontScore = <<10>>
    /\ backendRawScore(text) >= 105
    /\ frontendRawScore(text) >= 105

----------------------------------------------------------------------------
(* Properties of shouldIntervene called on its own. *)

moodTenths(h) == [i \in 1..Len(h) |-> h[i].mood.tenths]

\* the last seven moods of a history (all of them if fewer)
LastSeven(ms) ==
    LET n == IF Len(ms) < 7 THEN Len(ms) ELSE 7
    IN  [i \in 1..n |-> ms[Len(ms) - n + i]]

RECURSIVE Total(_)
Total(ms) == IF ms = <<>> THEN 0 ELSE ms[1] + Total(Tail(ms))

\* mean of ms < c, all in tenths
MeanBelow(ms, c) == Total(ms) < c * Len(ms)

WithinOneOfPredecessor(ms) ==
    \A i \in 2..Len(ms) : ms[i] <= ms[i - 1] + 10

C6_ShortHistoryNeverIntervenes ==
    (verdict # <<>> /\ Len(moodHistory) < 5) => verdict[1] = FALSE

\* four entries whose mean is below 4 have been evaluated to false
C6_ShortLowHistoryEvaluated ==
    /\ verdict = <<FALSE>>
    /\ Len(moodHistory) = 4
    /\ MeanBelow(moodTenths(moodHistory), 40)

\* C7: shouldIntervene is true for every history of at least 5 entries that
\* contains 3 or more consecutive entries with mood below 4.
C7_ThreeLowDaysIntervene ==
    (/\ verdict # <<>>
     /\ Len(moodHistory) >= 5
     /\ \E i \in 1..(Len(moodHistory) - 2) :
            \A j \in i..(i + 2) : moodHistory[j].mood.tenths < 40)
        => verdict[1] = TRUE

----------------------------------------------------------------------------
(* Properties of the backend. *)

\* an integer from 1 to 10
ScoreValue(v) ==
    v.kind = "number" /\ v.tenths % 10 = 0 /\ v.tenths >= 10 /\ v.tenths <= 100

\* C1: whatever mood the clients of POST /journal/text and POST /journal/voice
\* supply, every stored journal and every entry returned by GET /mood/history
\* carries a mood that is an integer from 1 to 10.
C1_StoredMoodsInRange ==
    /\ \A i \in 1..Len(journals) : ScoreValue(journals[i].mood)
    /\ resp.route = "mood/history" =>
           \A i \in 1..Len(resp.history) : ScoreValue(resp.history[i].mood)

\* the positions in the store of the entries of a user
EntriesOf(userId) == {i \in 1..Len(journals) : journals[i].userId = userId}

\* I holds the 7 most recent entries by date among E (all of E if fewer)
MostRecentSeven(I, E) ==
    /\ I \subseteq E
    /\ Cardinality(I) = (IF Cardinality(E) < 7 THEN Cardinality(E) ELSE 7)
    /\ \A i \in I, j \in E \ I : journals[i].date >= journals[j].date

RECURSIVE TotalOver(_)
TotalOver(I) ==
    IF I = {} THEN 0
    ELSE LET i == CHOOSE i \in I : TRUE
         IN  journals[i].mood.tenths + TotalOver(I \ {i})

AllNumbers(I) == \A i \in I : journals[i].mood.kind = "number"
MeanOverAtLeast(I, c) == AllNumbers(I) /\ TotalOver(I) >= c * Cardinality(I)
MeanOverBelow(I, c) == AllNumbers(I) /\ TotalOver(I) < c * Cardinality(I)

\* C9: for a user with at least one entry GET /mood/trend-status answers
\* 'stable' iff the mean of the user's 7 most recent entries is >= 7,
\* 'fluctuating' iff it is >= 4 and < 7, and 'negative' iff it is < 4.
C9_TrendFollowsMean ==
    (/\ resp.route = "mood/trend-status"
     /\ resp.status = 200
     /\ EntriesOf(resp.userId) # {})
        => \E I \in SUBSET EntriesOf(resp.userId) :
              /\ MostRecentSeven(I, EntriesOf(resp.userId))
              /\ resp.trend = "stable" <=> MeanOverAtLeast(I, 70)
              /\ resp.trend = "fluctuating" <=>
                     (MeanOverAtLeast(I, 40) /\ MeanOverBelow(I, 70))
              /\ resp.trend = "negative" <=> MeanOverBelow(I, 40)

\* C10: for a user with no entries GET /mood/trend-status answers 'stable'
\* with an explanatory message and without an average.
C10_NoEntriesIsStable ==
    (/\ resp.route = "mood/trend-status"
     /\ resp.status = 200
     /\ EntriesOf(resp.userId) = {})
        => /\ resp.trend = "stable"
           /\ resp.message = "Start journaling to track your mood trends"
           /\ resp.avgMood = <<>>

\* a user without entries has asked for the trend while another user's
\* entries are stored
C10_AskedWithoutEntries ==
    /\ resp.route = "mood/trend-status"
    /\ resp.status = 200
    /\ EntriesOf(resp.userId) = {}
    /\ journals # <<>>

----------------------------------------------------------------------------
(* Properties of the dashboard flow. *)

Members(s) == {s[i] : i \in 1..Len(s)}

\* C4: in the dashboard flow, for every history of at least 5 entries, the
\* entries shouldIntervene averages are the user's 7 most recent entries.
C4_AveragesMostRecent ==
    (verdict # <<>> /\ Len(moodHistory) >= 5) =>
        LET averaged == Members(recentWindow(moodHistory))
            others == Members(moodHistory) \ averaged
        IN  /\ Cardinality(averaged) =
                   (IF Len(moodHistory) < 7 THEN Len(moodHistory) ELSE 7)
            /\ \A a \in averaged, o \in others : a.date > o.date

\* the entries of w from the oldest to the newest (their dates differ)
OldestFirst(w) ==
    [i \in 1..Len(w) |->
        CHOOSE e \in Members(w) :
            Cardinality({f \in Members(w) : f.date < e.date}) = i - 1]

\* C5: in the dashboard flow the decline condition holds exactly when, in
\* chronological order, no entry of the window exceeds the previous entry's
\* mood by more than 1.
C5_DeclineIsChronological ==
    (verdict # <<>> /\ Len(moodHistory) >= 5) =>
        LET w == recentWindow(moodHistory)
            c == OldestFirst(w)
        IN  isDecline(w) =
                (\A i \in 2..Len(c) : c[i].mood.tenths <= c[i - 1].mood.tenths + 10)

----------------------------------------------------------------------------
(* Properties of the intervention prompt. *)

\* C8: once the bot has been dismissed at time t it is not shown before
\* t + 24 hours.
C8_HiddenForADay ==
    (showBot /\ dismissedAt # <<>>) => clock >= dismissedAt[1] + DayMs

----------------------------------------------------------------------------
(* Properties of the journal store. *)

\* C11: every stored entry has an id that differs from the id of every other
\* stored entry, and ids grow in the order of creation, also for entries
\* created in the same millisecond.
C11_IdsUniqueAndOrdered ==
    \A i, j \in 1..Len(journals) : i < j => journals[i].id < journals[j].id

\* s is the beginning of t
IsPrefix(s, t) == Len(s) <= Len(t) /\ SubSeq(t, 1, Len(s)) = s

\* C12: the journal store is append-only: a request leaves every stored
\* entry as it is and where it is, and only an accepted journal submission
\* adds an entry, one, at the end.
C12_StoreAppendOnly ==
    [][/\ IsPrefix(journals, journals')
       /\ Len(journals') <= Len(journals) + 1
       /\ journals' # journals =>
              /\ resp'.route \in {"journal/text", "journal/voice"}
              /\ resp'.status = 201]_vars

\* entries are stored and a read request has been answered after them
C12_ReadAfterSubmissions ==
    /\ Len(journals) >= 2
    /\ resp.route \in {"mood/history", "mood/trend-status"}
    /\ resp.status = 200
    /\ resp.history # <<>> \/ resp.trend # ""

\* C13: the entries GET /mood/history returns and the entries
\* GET /mood/trend-status averages for a user are entries this same user
\* submitted, never an entry of another registered user.
C13_OnlyOwnEntries ==
    /\ (resp.route = "mood/history" /\ resp.status = 200) =>
           \A i \in 1..Len(resp.history) :
               \E j \in 1..Len(journals) :
                   /\ journals[j].author = resp.email
                   /\ journals[j].id = resp.history[i].id
                   /\ journals[j].mood = resp.history[i].mood
    /\ (resp.route = "mood/trend-status" /\ resp.status = 200) =>
           \A i \in 1..Len(trendWindowOf(resp.userId)) :
               trendWindowOf(resp.userId)[i].author = resp.email

----------------------------------------------------------------------------
(* Properties of voice scoring. *)

\* the calls that returned a result object
Scored == {k \in 1..Len(calls) : calls[k].result # <<>>}

\* clamp(round(0.6 * min(energy*100, 10) + 0.4 * max(0, 10 - zcr/100)), 1, 10)
\* for energy e in thousandths and zcr z
ExpectedMoodScore(e, z) ==
    LET fromEnergy == IF e >= 100 THEN 10000 ELSE 100 * e
        fromClarity == IF z >= 1000 THEN 0 ELSE 10000 - 10 * z
        weighted == 6 * fromEnergy + 4 * fromClarity
        nearest == CHOOSE n \in 0..10 :
                       10000 * n - 5000 <= weighted /\ weighted < 10000 * n + 5000
    IN  IF nearest < 1 THEN 1 ELSE nearest

\* C14: for every snapshot with energy >= 0 and zcr >= 0 the moodScore of
\* getCurrentFeatures is clamp(round(0.6 * min(energy*100, 10)
\* + 0.4 * max(0, 10 - zcr/100)), 1, 10), an integer from 1 to 10.
C14_MoodScoreFormula ==
    \A k \in Scored :
        LET f == calls[k].features[1]
        IN  (f.energy # <<>> /\ f.zcr # <<>> /\ f.energy[1] >= 0 /\ f.zcr[1] >= 0) =>
                /\ calls[k].result[1].moodScore
                       = Num(10 * ExpectedMoodScore(f.energy[1], f.zcr[1]))
                /\ calls[k].result[1].moodScore.tenths \in {10 * n : n \in 1..10}

\* a silent, noisy snapshot has been scored: the lower clamp decides
C14_SilentNoisyScored ==
    \E k \in Scored :
        /\ calls[k].features[1].energy = <<0>>
        /\ calls[k].features[1].zcr = <<1200>>
        /\ calls[k].result[1].moodScore = Num(10)

\* C15: getCurrentFeatures returns null whenever no feature sample is
\* available: before startAnalysis, and when the analyzer yields nothing.
C15_NullWithoutSample ==
    \A k \in 1..Len(calls) :
        (calls[k].analyzer = "null" \/ calls[k].features = <<>>) =>
            calls[k].result = <<>>

\* it has been called before startAnalysis, and again on a started analyzer
\* that yields nothing
C15_CalledWithoutSample ==
    /\ \E k \in 1..Len(calls) : calls[k].analyzer = "null" /\ calls[k].result = <<>>
    /\ \E k \in 1..Len(calls) :
           /\ calls[k].analyzer # "null"
           /\ calls[k].features = <<>>
           /\ calls[k].result = <<>>

\* C16: a features object in which energy, zcr or rms is missing makes
\* getCurrentFeatures return null, not a result carrying a mood score.
C16_IncompleteGivesNull ==
    \A k \in 1..Len(calls) :
        (/\ calls[k].analyzer # "null"
         /\ calls[k].features # <<>>
         /\ \/ calls[k].features[1].energy = <<>>
            \/ calls[k].features[1].zcr = <<>>
            \/ calls[k].features[1].rms = <<>>)
            => calls[k].result = <<>>

\* the analysis carries a mood score that scoring produced
UsableScore(analysis) ==
    analysis # <<>> /\ analysis[1].moodScore.kind = "number"

\* C17: when the recording completed without a usable analysis result, the
\* voice journal that gets stored carries no mood score.
C17_NoFabricatedScore ==
    [][(/\ Len(journals') = Len(journals) + 1
        /\ journals'[Len(journals')].source = "voice"
        /\ ~UsableScore(voiceAnalysis))
           => journals'[Len(journals')].mood.kind # "number"]_vars

\* C18: the clarity label is 'clear' iff rms > 0.5, 'unclear' iff rms < 0.2
\* and 'moderate' otherwise, whatever energy and zcr are.
C18_ClarityFromRms ==
    \A k \in Scored :
        LET f == calls[k].features[1]
            label == calls[k].result[1].clarity
        IN  f.rms # <<>> =>
                /\ label = "clear" <=> f.rms[1] > 500
                /\ label = "unclear" <=> f.rms[1] < 200
                /\ label = "moderate" <=> (f.rms[1] >= 200 /\ f.rms[1] <= 500)

\* a snapshot with rms exactly 0.5 has been labelled
C18_UpperThresholdLabelled ==
    \E k \in Scored :
        /\ calls[k].features[1].rms = <<500>>
        /\ calls[k].result[1].clarity = "moderate"

\* C19: voice scoring applied twice to the same feature snapshot returns
\* results equal in every field.
C19_SameSnapshotSameResult ==
    \A i, j \in Scored :
        calls[i].features = calls[j].features =>
            calls[i].result = calls[j].result

----------------------------------------------------------------------------
(* Monotonicity of the text scorers. *)

\* recognized words that get added to a text
AddedPositive == {<<"h","a","p","p","y">>, <<"j","o","y">>}
AddedNegative == {<<"s","a","d">>, <<"p","a","i","n">>}

\* the texts that are t with the word w added: in front, at the end, or
\* after one of its blanks
WithWord(t, w) ==
    {w \o <<" ">> \o t, t \o <<" ">> \o w}
        \cup {SubSeq(t, 1, k) \o w \o <<" ">> \o SubSeq(t, k + 1, Len(t)) :
                  k \in {i \in 1..Len(t) : t[i] \in WhiteSpace}}

\* C20: adding one more recognized positive word to a text never decreases
\* the analyzeSentiment score and adding one more recognized negative word
\* never increases it, in both copies, for every starting text.
C20_LexiconWordsMonotone ==
    (frontScore # <<>> /\ backScore # <<>>) =>
        /\ \A w \in AddedPositive : \A u \in WithWord(text, w) :
               /\ analyzeSentiment(u) >= frontScore[1]
               /\ analyzeSentimentBackend(u) >= backScore[1]
        /\ \A w \in AddedNegative : \A u \in WithWord(text, w) :
               /\ analyzeSentiment(u) <= frontScore[1]
               /\ analyzeSentimentBackend(u) <= backScore[1]

\* a text ending in a negation marker has been scored by both copies; the
\* positive word added at its end completes one more negation match
C20_AddedAfterNegation ==
    /\ frontScore # <<>>
    /\ backScore # <<>>
    /\ Len(text) > 3
    /\ SubSeq(text, Len(text) - 3, Len(text)) = <<" ","n","o","t">>
    /\ countNegations(text \o <<" ","h","a","p","p","y">>) = countNegations(text) + 1

----------------------------------------------------------------------------
(* Further properties of the text scorers. *)

\* "I am happy and excited!"
HappyAndExcited ==
    <<"I"," ","a","m"," ","h","a","p","p","y"," ",
      "a","n","d"," ","e","x","c","i","t","e","d","!">>

\* C21: for "I am happy and excited!" the scorer counts 'happy' and 'excited'
\* and one exclamation mark, accumulates 6.2 and returns 6.
C21_HappyAndExcited ==
    (text = HappyAndExcited /\ frontScore # <<>> /\ backScore # <<>>) =>
        /\ frontendRawScore(text) = 62
        /\ backendRawScore(text) = 62
        /\ frontScore = <<6>>
        /\ backScore = <<6>>

\* the text holds nothing but whitespace
WhitespaceOnly(t) == \A i \in 1..Len(t) : t[i] \in WhiteSpace

\* C22: for the empty string and for every whitespace-only text
\* analyzeSentiment returns exactly 5.
C22_BlankTextScoresFive ==
    WhitespaceOnly(text) =>
        /\ frontScore # <<>> => frontScore = <<5>>
        /\ backScore # <<>> => backScore = <<5>>

\* a text of a blank, a line break and a tab has been scored by both copies
C22_MixedBlanksScored ==
    /\ text = <<" ", "\n", "\t">>
    /\ frontScore = <<5>>
    /\ backScore = <<5>>

\* C24: the backend copy and the frontend copy of analyzeSentiment return the
\* same score for every text, also with more than two question marks.
C24_CopiesAgree ==
    (frontScore # <<>> /\ backScore # <<>>) => frontScore = backScore

\* a token that begins with a word
WordToken(w) == w # <<>> /\ w[1] \in WordChars

\* the negation-marker tokens of t that are immediately followed by a word token
MarkersBeforeWords(t) ==
    LET tokens == splitWhitespace(toLowerCase(t))
    IN  Cardinality({i \in 1..Len(tokens) - 1 :
                        tokens[i] \in negationMarkers /\ WordToken(tokens[i + 1])})

\* C25: the number of 0.3 deductions equals the number of negation-marker
\* tokens immediately followed by a word token: consecutive markers are each
\* counted, marker letters at the end of a longer word are not.
C25_DeductionPerMarker ==
    (frontScore # <<>> /\ backScore # <<>>) =>
        countNegations(text) = MarkersBeforeWords(text)

\* the lexicon words among the tokens of t, with repetitions
LexiconHits(t, lexicon) ==
    LET tokens == splitWhitespace(toLowerCase(t))
    IN  Cardinality({i \in 1..Len(tokens) : tokens[i] \in lexicon})

\* the only scored feature of t is one word of the lexicon
OnlyFeature(t, lexicon) ==
    /\ LexiconHits(t, lexicon) = 1
    /\ LexiconHits(t, (positiveWords \cup negativeWords) \ lexicon) = 0
    /\ countNegations(t) = 0
    /\ countChar(t, "!") = 0
    /\ countChar(t, "?") = 0

\* C29: a text whose only scored feature is one negative word scores strictly
\* below 5, as a text whose only scored feature is one positive word scores
\* strictly above 5.
C29_SymmetricAroundBaseline ==
    (frontScore # <<>> /\ backScore # <<>>) =>
        /\ OnlyFeature(text, positiveWords) => (frontScore[1] > 5 /\ backScore[1] > 5)
        /\ OnlyFeature(text, negativeWords) => (frontScore[1] < 5 /\ backScore[1] < 5)

----------------------------------------------------------------------------
(* Further properties of the backend stores. *)

\* C26: no two stored users share an email, also when register requests run
\* concurrently.
C26_EmailsUnique ==
    \A i, j \in 1..Len(users) : i # j => users[i].email # users[j].email

\* C27: a request the backend rejects (401 for a missing or invalid token,
\* 400 for a duplicate email, 401 for a failed login, 400 for a voice
\* submission without a file) leaves users and journals unchanged.
C27_RejectedLeavesStores ==
    [][resp'.status \in {400, 401} => (users' = users /\ journals' = journals)]_vars

\* a signed voice submission without a file has been rejected while a
\* journal is stored
C27_VoiceWithoutFileRejected ==
    /\ resp.route = "journal/voice"
    /\ resp.status = 400
    /\ resp.message = "No audio file provided"
    /\ users # <<>>
    /\ journals # <<>>

----------------------------------------------------------------------------
(* The trend of whole-number moods: one user journals from the journal page,
   which sends the whole number its analyzeSentiment computed, and asks for
   the trend status. *)

\* the entries one user writes
MaxTrendEntries == 7

\* texts typed into the journal page; they score 3, 4, 6 and 7
TrendTexts ==
    { <<"s","a","d"," ","s","a","d"," ","s","a","d"," ","s","a","d">>,
      <<"s","a","d"," ","s","a","d">>,
      <<"h","a","p","p","y"," ","h","a","p","p","y">>,
      <<"h","a","p","p","y"," ","h","a","p","p","y"," ","h","a","p","p","y"," ","h","a","p","p","y">> }

TrendInit == BackendIdle /\ IdleText /\ IdleIntervene /\ BotOff /\ VoiceOff
            /\ CombineOff /\ ChatOff

\* journal.tsx handleTextSubmit, entries written at distinct milliseconds
MoodSubmit ==
    /\ Len(journals) < MaxTrendEntries
    /\ now > LatestStamp
    /\ \E c \in SignedTokens, t \in TrendTexts :
           PostJournalText(c, t, Num(10 * analyzeSentiment(t)))
    /\ ScorersIdle

TrendNext ==
    \/ ClockTick
    \/ SignUp
    \/ RegisterDone
    \/ MoodSubmit
    \/ FetchTrendStatus

SpecTrend == TrendInit /\ [][TrendNext]_vars

\* the stored moods are whole numbers from 1 to 10
WholeMoods ==
    \A i \in 1..Len(journals) :
        /\ isNumber(journals[i].mood)
        /\ journals[i].mood.tenths \in {10 * n : n \in 1..10}

\* C28: for every window of 1 to 7 entries with whole-number moods in [1,10]
\* the avgMood of the trend status, rounded to one decimal, lies in the band
\* of the reported status: stable from 7.0, fluctuating from 4.0 to below 7.0,
\* negative below 4.0.
C28_AverageInBand ==
    (/\ WholeMoods
     /\ resp.route = "mood/trend-status"
     /\ resp.status = 200
     /\ resp.avgMood # <<>>) =>
        /\ isNumber(resp.avgMood[1])
        /\ resp.trend = "stable" => resp.avgMood[1].tenths >= StableAverage
        /\ resp.trend = "fluctuating" =>
               /\ resp.avgMood[1].tenths >= FluctuatingAverage
               /\ resp.avgMood[1].tenths < StableAverage
        /\ resp.trend = "negative" => resp.avgMood[1].tenths < FluctuatingAverage

\* seven entries whose mean 48/7 is reported as 6.9 with status fluctuating
C28_JustBelowStable ==
    /\ Len(journals) = 7
    /\ resp.route = "mood/trend-status"
    /\ resp.trend = "fluctuating"
    /\ resp.avgMood = <<Num(69)>>

----------------------------------------------------------------------------
(* The score aggregator, MoodAggregator.combine_scores, as the documentation
   describes it.  Scores are in tenths, the final score in hundredths. *)

\* the default weights 0.4 and 0.6, in tenths
TextWeight == 4
VoiceWeight == 6
\* the default high threshold 2.5, in tenths
HighDiscrepancy == 25

\* text scores are the whole numbers analyzeSentiment returns; voice scores
\* come in halves, as the 4.5 of the documented example
TextScores == {10 * n : n \in 1..10}
VoiceScores == {5 * n : n \in 2..20}

abs(x) == IF x < 0 THEN -x ELSE x

\* the threshold compared strictly
discrepancyLevelsStrict(magnitude) ==
    IF magnitude > HighDiscrepancy THEN {"high"} ELSE {"moderate", "low"}

\* the levels a magnitude can be given: "high" from the high threshold on;
\* the banding below it is not fixed by the documentation
discrepancyLevels(magnitude) ==
    IF magnitude >= HighDiscrepancy THEN {"high"} ELSE {"moderate", "low"}

\* combine(textScore, voiceScore) with the default weights
combine(t, v, level) ==
    [finalScore |-> v * VoiceWeight + t * TextWeight,
     magnitude |-> abs(t - v),
     level |-> level]

CombineInit ==
    /\ textScore \in TextScores
    /\ voiceScore \in VoiceScores
    /\ combined = <<>>
    /\ BackendOff
    /\ IdleText
    /\ IdleIntervene
    /\ BotOff
    /\ VoiceOff
    /\ ChatOff

CombineFrame == UNCHANGED <<textVars, interveneVars, backendVars, botVars,
                            voiceVars, chatVars>>

\* the aggregator is called on the two scores of a check-in
Combine ==
    /\ combined = <<>>
    /\ \E level \in discrepancyLevels(abs(textScore - voiceScore)) :
           combined' = <<combine(textScore, voiceScore, level)>>
    /\ UNCHANGED <<textScore, voiceScore>>
    /\ CombineFrame

\* the next check-in brings two new scores
NextCheckIn ==
    /\ combined # <<>>
    /\ textScore' \in TextScores
    /\ voiceScore' \in VoiceScores
    /\ combined' = <<>>
    /\ CombineFrame

CombineNext ==
    \/ Combine
    \/ NextCheckIn

SpecCombine == CombineInit /\ [][CombineNext]_vars

\* C23: with the default weights finalScore = voiceScore*0.6 + textScore*0.4
\* and magnitude = |textScore - voiceScore|, and the level is 'high' whenever
\* the magnitude is at least 2.5; combine(7, 4.5) gives 5.5, 2.5 and 'high'.
C23_CombineDefaults ==
    combined # <<>> =>
        /\ combined[1].finalScore = 6 * voiceScore + 4 * textScore
        /\ \/ combined[1].magnitude = textScore - voiceScore
           \/ combined[1].magnitude = voiceScore - textScore
        /\ combined[1].magnitude >= 0
        /\ combined[1].magnitude >= 25 => combined[1].level = "high"
        /\ (textScore = 70 /\ voiceScore = 45) =>
               /\ combined[1].finalScore = 550
               /\ combined[1].magnitude = 25
               /\ combined[1].level = "high"

\* combine(7, 4.5) has been called
C23_DocumentedExample ==
    /\ textScore = 70
    /\ voiceScore = 45
    /\ combined # <<>>

----------------------------------------------------------------------------
(* components/AIInterventionBot: the conversation.  handleSend answers after
   one second; the delayed callback reads the stage of the render in which
   the message was sent. *)

\* the calls of handleSend
MaxSends == 3
\* the messages up to which quick actions are clicked
MaxMessages == 4

\* what the user types
ChatInputs ==
    { <<>>, <<" ", " ">>,
      <<"S","a","d">>, <<"n","o","t"," ","g","o","o","d">>,
      <<"o","k","a","y">>, <<"y","e","s">>, <<"h","m">> }

\* String.prototype.includes
includes(t, w) ==
    \E i \in 1..(Len(t) - Len(w) + 1) : SubSeq(t, i, i + Len(w) - 1) = w

\* !userInput.trim()
trimmedEmpty(t) == \A i \in 1..Len(t) : t[i] \in WhiteSpace

includesAny(t, ws) == \E w \in ws : includes(t, w)

LowWords == { <<"n","o","t"," ","g","o","o","d">>, <<"b","a","d">>, <<"s","a","d">> }
FairWords == { <<"o","k","a","y">>, <<"f","i","n","e">> }
AcceptWords == { <<"y","e","s">>, <<"s","u","r","e">>, <<"h","e","l","p">> }

\* the stage the one-second callback sets for the stage it read and the input
replyStage(read, input) ==
    CASE read = "greeting" ->
             IF includesAny(input, LowWords) THEN "listening"
             ELSE IF includesAny(input, FairWords) THEN "resources"
             ELSE "listening"
      [] read = "listening" -> "resources"
      [] OTHER -> stage

\* the callback calls showResources
repliesWithResources(read, input) ==
    read = "listening" /\ includesAny(input, AcceptWords)

ChatInit ==
    /\ stage = "greeting"
    /\ sent = 0
    /\ messageCount = 0
    /\ greetingPending = TRUE
    /\ pendingReplies = <<>>
    /\ pendingLists = 0
    /\ BackendOff
    /\ IdleText
    /\ IdleIntervene
    /\ BotOff
    /\ VoiceOff
    /\ CombineOff

ChatFrame == UNCHANGED <<textVars, interveneVars, backendVars, botVars,
                         voiceVars, combineVars>>

\* the effect's setTimeout(() => addBotMessage(getInitialGreeting()), 500)
GreetingFires ==
    /\ greetingPending
    /\ greetingPending' = FALSE
    /\ messageCount' = messageCount + 1
    /\ UNCHANGED <<stage, sent, pendingReplies, pendingLists>>
    /\ ChatFrame

\* handleSend
HandleSend ==
    /\ sent < MaxSends
    /\ sent' = sent + 1
    /\ \E userInput \in ChatInputs :
           IF trimmedEmpty(userInput)
           THEN UNCHANGED <<messageCount, pendingReplies>>
           ELSE /\ messageCount' = messageCount + 1
                /\ pendingReplies' =
                       Append(pendingReplies,
                              [stage |-> stage, input |-> toLowerCase(userInput)])
    /\ UNCHANGED <<stage, greetingPending, pendingLists>>
    /\ ChatFrame

\* the one-second callback of the oldest message not yet answered
ReplyFires ==
    /\ pendingReplies # <<>>
    /\ LET reply == Head(pendingReplies)
       IN  /\ stage' = replyStage(reply.stage, reply.input)
           /\ pendingLists' = IF repliesWithResources(reply.stage, reply.input)
                              THEN pendingLists + 1
                              ELSE pendingLists
    /\ messageCount' = messageCount + 1
    /\ pendingReplies' = Tail(pendingReplies)
    /\ UNCHANGED <<sent, greetingPending>>
    /\ ChatFrame

\* the 1.5-second callback of showResources
ListFires ==
    /\ pendingLists > 0
    /\ pendingLists' = pendingLists - 1
    /\ messageCount' = messageCount + 1
    /\ UNCHANGED <<stage, sent, greetingPending, pendingReplies>>
    /\ ChatFrame

\* handleQuickAction; its buttons show while stage is 'greeting' and a
\* message is there
QuickAction ==
    /\ stage = "greeting"
    /\ messageCount > 0
    /\ messageCount < MaxMessages
    /\ messageCount' = messageCount + 1
    /\ UNCHANGED <<stage, sent, greetingPending, pendingReplies, pendingLists>>
    /\ ChatFrame

ChatNext ==
    \/ GreetingFires
    \/ HandleSend
    \/ ReplyFires
    \/ ListFires
    \/ QuickAction

SpecChat == ChatInit /\ [][ChatNext]_vars

StageRank(s) ==
    CASE s = "greeting" -> 1
      [] s = "listening" -> 2
      [] OTHER -> 3

\* C30: the stage only moves forward (greeting to listening to resources, or
\* greeting to resources) and never changes once it is 'resources', also when
\* messages are sent while earlier one-second replies are pending.
C30_StageOnlyForward ==
    [][StageRank(stage') >= StageRank(stage)]_vars

====
